---------------------------- MODULE Spec2Model ----------------------------
(***************************************************************************)
(* Model of the staged measurement pipeline of                             *)
(* src/ui/deepcode_lab/papers/2/generate_code:                             *)
(*   main.py                     the pipeline driver                       *)
(*   src/core/crawler.py         Crawler           (Discover)              *)
(*   src/core/metrics_collector.py MetricsCollector (Measure)              *)
(*   src/core/analyzer.py        Analyzer          (Analyze)               *)
(*   src/core/report_generator.py ReportGenerator  (Report)                *)
(*   src/utils/config.py         Config, get_config                        *)
(*                                                                         *)
(* The logger is an injected collaborator: every component is modelled     *)
(* with a logger in hand, and a log call has no effect on the state.       *)
(* Python values are modelled by what the code reads of them; a record     *)
(* field that is only copied from the HTTP response (content_length,       *)
(* content_type, response_time) is left out of the records.                *)
(***************************************************************************)
EXTENDS Integers, Sequences, FiniteSets, TLC

VARIABLES
    \* ---- Crawler object (crawler.py:24-27) and one crawl() call
    base_urls,      \* self.base_urls: the seed list
    max_depth,      \* self.max_depth
    delay_ok,       \* TRUE iff self.delay is a value time.sleep accepts
    idx,            \* position of crawl()'s for loop in base_urls
    results,        \* crawl()'s local `results`
    seen_urls,      \* crawl()'s local `seen_urls`
    fetchLog,       \* history: every requests.get issued by this crawl()
    \* ---- the pipeline driver main()
    pc,             \* position of main()
    stages,         \* history: the stage calls main() made and saw return
    mainExc,        \* the exception main() re-raised, or "none"
    \* ---- the wall clock read by the timestamp helpers
    clock,
    \* ---- MetricsCollector object (metrics_collector.py:40-41) and one collect() call
    metrics_sources,    \* self.metrics_sources
    http_endpoints,     \* self.http_endpoints
    mpc,                \* position of the caller of collect() and analyze()
    src_idx,            \* position of collect()'s loop in metrics_sources
    ep_idx,             \* position of _collect_http_metrics()'s loop in http_endpoints
    md_timestamp,       \* metrics_data['timestamp']
    md_sources,         \* metrics_data['sources']
    http_metrics,       \* _collect_http_metrics()'s local `http_metrics`
    probeLog,           \* history: the outcome of each probe of the current http pass
    probeStatus,        \* history: the status each of these probes' responses carried
    snapshot,           \* what collect() returned
    collectExc,         \* the exception collect() re-raised, or "none"
    \* ---- one Analyzer.analyze() call
    ainput,             \* the argument of analyze()
    analysis,           \* what analyze() returned
    analyzeExc,         \* the exception analyze() raised, or "none"
    analysis2,          \* what a second analyze() call on the same argument returned
    \* ---- ReportGenerator object (report_generator.py:31-39) and its generate() calls
    include_analysis,   \* self.include_analysis
    formats,            \* config 'reporting.formats'
    dir_exists,         \* the output directory exists
    files,              \* the files under the output directory: path -> what was written
    rpc,                \* position of the caller of ReportGenerator
    calls,              \* history: the number of generate() calls made
    rinput,             \* the argument of the last generate() call
    report,             \* the report the last generate() call assembled
    report_path,        \* what the last generate() call returned
    generateExc,        \* the exception the last call raised, or "none"
    analyze_calls,      \* history: the number of Analyzer.analyze() calls made by generate()
    \* ---- the process environment and the Config singleton (config.py)
    os_environ,         \* os.environ: the (name, value) entries, in iteration order
    config_instance,    \* _config_instance: 0 for None, else the Config object
    heap,               \* heap[c]: the _config dictionary of Config object c
    refs,               \* what each get_config() call returned (0: it raised)
    loaded_file,        \* the config_file argument the instance was built with
    sets,               \* the number of Config.set calls made
    cop,                \* the last Config operation, with its outcome
    last_set,           \* the last Config.set call
    prev_heap           \* heap before the last Config operation

crawlerVars == <<base_urls, max_depth, delay_ok, idx, results, seen_urls, fetchLog>>
driverVars  == <<pc, stages, mainExc>>
collectVars == <<metrics_sources, http_endpoints, src_idx, ep_idx, md_timestamp,
                 md_sources, http_metrics, probeLog, probeStatus, snapshot,
                 collectExc>>
analyzeVars == <<ainput, analysis, analyzeExc, analysis2>>
reportVars  == <<include_analysis, formats, dir_exists, files, rpc, calls, rinput,
                 report, report_path, generateExc, analyze_calls>>
configVars  == <<os_environ, config_instance, heap, refs, loaded_file, sets, cop,
                 last_set, prev_heap>>

----------------------------------------------------------------------------
(* Bounds of the model *)

MaxSeeds == 3

Locators == {"a", "b"}

\* status codes a transport may deliver: one 2xx, one non-2xx
StatusCodes == {200, 404}

\* what requests.get (and the lines of the try block after it) can do
FetchOutcomes == {"ok", "RequestException", "Exception"}

DepthChoices == {-1, 0, 1, 2}

SeqsUpTo(S, n) == UNION {[1..k -> S] : k \in 0..n}

MaxSources == 2

MaxEndpoints == 2

MaxClock == 1

MaxFormats == 2

MaxReports == 2

\* 'json' is the format _save_report() knows; 'html' is any other name
FormatNames == {"json", "html"}

\* what open() and json.dump() can do to one artifact
WriteOutcomes == {"ok", "open_fails", "dump_fails"}

\* 'system' and 'http' are the names collect() knows; 'custom' is any other name
SourceNames == {"system", "http", "custom"}

----------------------------------------------------------------------------
(* Python values, tagged by type: the tag is the one field of the record *)

None      == [none |-> TRUE]
Str(s)    == [str |-> s]
Num(n)    == [num |-> n]
Bool(b)   == [bool |-> b]
List(s)   == [list |-> s]
Dict(f)   == [dict |-> f]
\* the ISO-8601 text of the instant n: a non-empty string
Stamp(n)  == [stamp |-> n]

EmptyMap == [k \in {} |-> None]

IsNone(v) == DOMAIN v = {"none"}
IsDict(v) == DOMAIN v = {"dict"}
IsList(v) == DOMAIN v = {"list"}

\* Python's truth value of v
Truthy(v) ==
    CASE DOMAIN v = {"none"}  -> FALSE
      [] DOMAIN v = {"str"}   -> v.str # ""
      [] DOMAIN v = {"stamp"} -> TRUE
      [] DOMAIN v = {"num"}   -> v.num # 0
      [] DOMAIN v = {"bool"}  -> v.bool
      [] DOMAIN v = {"list"}  -> Len(v.list) > 0
      [] DOMAIN v = {"dict"}  -> DOMAIN v.dict # {}

\* d.get(k) of a dict d
DictGet(d, k) == IF k \in DOMAIN d.dict THEN d.dict[k] ELSE None

\* len(d) of a dict d
DictLen(d) == Cardinality(DOMAIN d.dict)

\* d[k] = v of a mapping
MapSet(f, k, v) == (k :> v) @@ f

----------------------------------------------------------------------------
(* Crawler *)

\* the record with the depth of the next level instead of the current one
CrawlRecord_NextDepth(url, status, depth) ==
    [url |-> url, status_code |-> status, depth |-> depth + 1]

\* crawler.py:74-82: the record built from a response
CrawlRecord(url, status, depth) ==
    [url |-> url, status_code |-> status, depth |-> depth]

\* the depth guard taken at the limit itself
DepthExceeded_AtLimit(depth) == depth >= max_depth

\* crawler.py:57-58: the depth guard of _crawl_recursive
DepthExceeded(depth) == depth > max_depth

\* the visited-set guard left out
AlreadySeen_Never(url) == FALSE

\* crawler.py:60-61: the visited-set guard of _crawl_recursive
AlreadySeen(url) == url \in seen_urls

\* the locator left out of the visited set
MarkSeen_Not(url) == seen_urls

\* crawler.py:63: seen_urls.add(url), before the try block
MarkSeen(url) == seen_urls \cup {url}

\* only the first except clause
Caught_RequestOnly(o) == o = "RequestException"

\* crawler.py:93-99: the two except clauses of _crawl_recursive
Caught(o) == o \in {"RequestException", "Exception"}

\* the status of a fetch that delivered no response
NoStatus == 0

\* one entry of the fetch history
Fetched(url, o, slept, status) ==
    [at |-> idx, url |-> url, outcome |-> o, slept |-> slept, status |-> status]

\* crawler.py:39-41 with 45-99: one iteration of crawl()'s loop, which is one
\* call _crawl_recursive(url, depth=0, seen_urls). An exception no except
\* clause catches leaves crawl() and is re-raised by main.py:65-67.
CrawlSeed ==
    /\ pc = "crawl"
    /\ idx <= Len(base_urls)
    /\ LET url == base_urls[idx] IN
       \/ \* depth > self.max_depth: return []
          /\ DepthExceeded(0)
          /\ UNCHANGED <<results, seen_urls, fetchLog, driverVars>>
       \/ \* url in seen_urls: return []
          /\ ~DepthExceeded(0)
          /\ AlreadySeen(url)
          /\ UNCHANGED <<results, seen_urls, fetchLog, driverVars>>
       \/ \* the response arrives, the record is built and the sleep returns
          /\ ~DepthExceeded(0)
          /\ ~AlreadySeen(url)
          /\ delay_ok
          /\ \E status \in StatusCodes :
                /\ results' = Append(results, CrawlRecord(url, status, 0))
                /\ fetchLog' = Append(fetchLog, Fetched(url, "ok", TRUE, status))
          /\ seen_urls' = MarkSeen(url)
          /\ UNCHANGED driverVars
       \/ \* the response arrives but time.sleep(self.delay) raises inside the
          \* try block (a negative or non-numeric delay): the record is dropped
          /\ ~DepthExceeded(0)
          /\ ~AlreadySeen(url)
          /\ ~delay_ok
          /\ seen_urls' = MarkSeen(url)
          /\ \E status \in StatusCodes :
                fetchLog' = Append(fetchLog, Fetched(url, "ok", FALSE, status))
          /\ IF Caught("Exception")
                THEN UNCHANGED driverVars
                ELSE pc' = "raised" /\ mainExc' = "Exception" /\ UNCHANGED stages
          /\ UNCHANGED results
       \/ \* requests.get raises
          /\ ~DepthExceeded(0)
          /\ ~AlreadySeen(url)
          /\ \E o \in FetchOutcomes \ {"ok"} :
                /\ fetchLog' = Append(fetchLog, Fetched(url, o, FALSE, NoStatus))
                /\ IF Caught(o)
                      THEN UNCHANGED driverVars
                      ELSE pc' = "raised" /\ mainExc' = o /\ UNCHANGED stages
          /\ seen_urls' = MarkSeen(url)
          /\ UNCHANGED results
    /\ idx' = idx + 1
    /\ UNCHANGED <<base_urls, max_depth, delay_ok, clock, collectVars, mpc, analyzeVars, reportVars, configVars>>

\* crawler.py:43: the loop is exhausted and crawl() returns `results`
CrawlReturn ==
    /\ pc = "crawl"
    /\ idx > Len(base_urls)
    /\ pc' = "crawled"
    /\ stages' = Append(stages, "Discover.end")
    /\ UNCHANGED <<crawlerVars, mainExc, clock, collectVars, mpc, analyzeVars, reportVars, configVars>>

----------------------------------------------------------------------------
(* Pipeline driver *)

\* main.py:36-38: construct the Crawler and call crawl()
MainCrawl ==
    /\ pc = "main"
    /\ pc' = "crawl"
    /\ stages' = Append(stages, "Discover.start")
    /\ UNCHANGED <<crawlerVars, mainExc, clock, collectVars, mpc, analyzeVars, reportVars, configVars>>

\* main.py:39 with 65-67: crawl() returned a list, and the log line indexes it
\* with the string 'urls': TypeError, logged by the except clause and re-raised.
\* Lines 41-63 are never reached.
MainLogCrawl ==
    /\ pc = "crawled"
    /\ pc' = "raised"
    /\ mainExc' = "TypeError"
    /\ UNCHANGED <<crawlerVars, stages, clock, collectVars, mpc, analyzeVars, reportVars, configVars>>

----------------------------------------------------------------------------
(* MetricsCollector *)

\* metrics_collector.py:106-113: the simulated gauges (whole percents here)
SystemMetrics ==
    Dict([cpu_usage_percent    |-> Num(45),
          memory_usage_percent |-> Num(60),
          disk_usage_percent   |-> Num(70),
          network_bytes_sent   |-> Num(1048576),
          network_bytes_recv   |-> Num(2097152),
          collection_method    |-> Str("simulated")])

\* metrics_collector.py:136-142: the entry of a probe that got a response
HttpSuccessEntry(endpoint, status) ==
    Dict([url |-> Str(endpoint), status_code |-> Num(status), success |-> Bool(TRUE)])

\* metrics_collector.py:148-152: the entry of a probe whose request failed;
\* str(e) of an exception of the requests library is a non-empty message
HttpFailureEntry(endpoint) ==
    Dict([url |-> Str(endpoint), error |-> Str("request failed"), success |-> Bool(FALSE)])

\* the except clause only logs
OnRequestException_LogOnly(metrics, endpoint) == metrics

\* metrics_collector.py:146-152: the except clause of the probe loop appends
\* the failure entry to http_metrics
OnRequestException(metrics, endpoint) == Append(metrics, HttpFailureEntry(endpoint))

\* an except clause that catches whatever is raised
ProbeCaught_All(o) == TRUE

\* metrics_collector.py:146: what the except clause of the probe loop catches
ProbeCaught(o) == o = "RequestException"

\* the count of the configured names instead of the collected sources
Snapshot_CountsConfigured(ts, sources) ==
    Dict([timestamp       |-> Stamp(ts),
          sources         |-> Dict(sources),
          collected_count |-> Num(Len(metrics_sources))])

\* metrics_collector.py:59-62, 74, 82: the dictionary collect() returns
Snapshot(ts, sources) ==
    Dict([timestamp       |-> Stamp(ts),
          sources         |-> Dict(sources),
          collected_count |-> Num(Cardinality(DOMAIN sources))])

\* the other variables, which a collect() or analyze() call leaves alone
collectFrame == <<crawlerVars, driverVars, clock, metrics_sources, http_endpoints, reportVars,
                  configVars>>

\* metrics_collector.py:57-62: collect() starts
CollectBegin ==
    /\ mpc = "idle"
    /\ mpc' = "sources"
    /\ md_timestamp' = clock
    /\ md_sources' = EmptyMap
    /\ src_idx' = 1
    /\ UNCHANGED <<collectFrame, ep_idx, http_metrics, probeLog, probeStatus, snapshot, collectExc,
                   analyzeVars>>

\* metrics_collector.py:65-71: one iteration of collect()'s loop over the sources
CollectSource ==
    /\ mpc = "sources"
    /\ src_idx <= Len(metrics_sources)
    /\ LET source == metrics_sources[src_idx] IN
       \/ /\ source = "system"
          /\ md_sources' = MapSet(md_sources, "system", SystemMetrics)
          /\ src_idx' = src_idx + 1
          /\ UNCHANGED <<mpc, ep_idx, http_metrics, probeLog, probeStatus>>
       \/ \* _collect_http_metrics() is entered (lines 124-125)
          /\ source = "http"
          /\ mpc' = "http"
          /\ ep_idx' = 1
          /\ http_metrics' = <<>>
          /\ probeLog' = <<>>
          /\ probeStatus' = <<>>
          /\ UNCHANGED <<md_sources, src_idx>>
       \/ \* unknown source: a warning
          /\ source \notin {"system", "http"}
          /\ src_idx' = src_idx + 1
          /\ UNCHANGED <<mpc, md_sources, ep_idx, http_metrics, probeLog, probeStatus>>
    /\ UNCHANGED <<collectFrame, md_timestamp, snapshot, collectExc, analyzeVars>>

\* metrics_collector.py:127-152: one iteration of the probe loop. An exception
\* the except clause does not catch leaves _collect_http_metrics() and is
\* logged and re-raised by collect() (lines 78-80).
ProbeEndpoint ==
    /\ mpc = "http"
    /\ ep_idx <= Len(http_endpoints)
    /\ LET endpoint == http_endpoints[ep_idx] IN
       \/ /\ \E status \in StatusCodes :
                /\ http_metrics' = Append(http_metrics, HttpSuccessEntry(endpoint, status))
                /\ probeStatus' = Append(probeStatus, status)
          /\ probeLog' = Append(probeLog, "ok")
          /\ UNCHANGED <<mpc, collectExc>>
       \/ \E o \in FetchOutcomes \ {"ok"} :
             /\ probeLog' = Append(probeLog, o)
             /\ probeStatus' = Append(probeStatus, NoStatus)
             /\ IF ProbeCaught(o)
                   THEN /\ http_metrics' = OnRequestException(http_metrics, endpoint)
                        /\ UNCHANGED <<mpc, collectExc>>
                   ELSE /\ mpc' = "raised"
                        /\ collectExc' = o
                        /\ UNCHANGED http_metrics
    /\ ep_idx' = ep_idx + 1
    /\ UNCHANGED <<collectFrame, src_idx, md_timestamp, md_sources, snapshot, analyzeVars>>

\* metrics_collector.py:154 with 69: _collect_http_metrics() returns the list
HttpReturn ==
    /\ mpc = "http"
    /\ ep_idx > Len(http_endpoints)
    /\ md_sources' = MapSet(md_sources, "http", List(http_metrics))
    /\ src_idx' = src_idx + 1
    /\ mpc' = "sources"
    /\ UNCHANGED <<collectFrame, ep_idx, md_timestamp, http_metrics, probeLog, probeStatus, snapshot,
                   collectExc, analyzeVars>>

\* metrics_collector.py:74-82: the count is set and collect() returns
CollectReturn ==
    /\ mpc = "sources"
    /\ src_idx > Len(metrics_sources)
    /\ snapshot' = Snapshot(md_timestamp, md_sources)
    /\ mpc' = "collected"
    /\ UNCHANGED <<collectFrame, src_idx, ep_idx, md_timestamp, md_sources, http_metrics,
                   probeLog, probeStatus, collectExc, analyzeVars>>

----------------------------------------------------------------------------
(* Analyzer *)

\* analyzer.py:119-123: _check_for_errors on a dictionary
CheckForErrors(metrics_data) ==
    \E key \in DOMAIN metrics_data.dict :
        LET value == metrics_data.dict[key] IN
        IsDict(value) /\ Truthy(DictGet(value, "error"))

\* analyzer.py:119: metrics_data.items() raises AttributeError on a value that
\* is no dictionary
CheckForErrorsRaises(metrics_data) == ~IsDict(metrics_data)

\* analyzer.py:57-66: _generate_summary
GenerateSummary(metrics_data, now) ==
    IF ~Truthy(metrics_data)
    THEN Dict([error |-> Str("No metrics data provided")])
    ELSE Dict([total_metrics |-> Num(DictLen(metrics_data)),
               has_errors    |-> Bool(CheckForErrors(metrics_data)),
               timestamp     |-> Stamp(now)])

\* analyzer.py:78-86: _extract_insights
ExtractInsights(metrics_data) ==
    IF CheckForErrors(metrics_data)
    THEN <<Str("Performance issues detected in metrics collection")>>
    ELSE <<>>

\* analyzer.py:98-106: _generate_recommendations
GenerateRecommendations(metrics_data) ==
    IF CheckForErrors(metrics_data)
    THEN <<Str("Investigate error sources in metrics collection pipeline")>>
    ELSE <<>>

\* analyzer.py:38-45: the dictionary analyze() returns
AnalysisResult(metrics_data, now) ==
    Dict([summary         |-> GenerateSummary(metrics_data, now),
          insights        |-> List(ExtractInsights(metrics_data)),
          recommendations |-> List(GenerateRecommendations(metrics_data))])

\* analyzer.py:38-42: analyze() raises what _extract_insights raises (the
\* summary of a falsy argument is built without reading its items)
AnalyzeRaises(metrics_data) == CheckForErrorsRaises(metrics_data)

\* analyzer.py:25-45: analyze(metrics_data)
DoAnalyze(metrics_data) ==
    /\ ainput' = metrics_data
    /\ IF AnalyzeRaises(metrics_data)
          THEN analyzeExc' = "AttributeError" /\ UNCHANGED analysis
          ELSE analysis' = AnalysisResult(metrics_data, clock) /\ UNCHANGED analyzeExc
    /\ mpc' = "analyzed"
    /\ UNCHANGED <<collectFrame, collectVars, analysis2>>

\* analyze() of the snapshot collect() returned
AnalyzeSnapshot ==
    /\ mpc = "collected"
    /\ DoAnalyze(snapshot)

\* analyze() of an absent (None) or empty ({}) snapshot
AnalyzeAbsent ==
    /\ mpc = "idle"
    /\ \E md \in {None, Dict(EmptyMap)} : DoAnalyze(md)

\* analyzer.py:25-45: a second analyze() call with the argument of the first
AnalyzeAgain ==
    /\ mpc = "analyzed"
    /\ IF AnalyzeRaises(ainput)
          THEN UNCHANGED analysis2
          ELSE analysis2' = AnalysisResult(ainput, clock)
    /\ mpc' = "analyzed2"
    /\ UNCHANGED <<collectFrame, collectVars, ainput, analysis, analyzeExc>>

\* time passes between two calls
Tick ==
    /\ mpc \in {"idle", "collected", "analyzed"}
    /\ clock < MaxClock
    /\ clock' = clock + 1
    /\ UNCHANGED <<crawlerVars, driverVars, collectVars, mpc, analyzeVars, reportVars, configVars>>

----------------------------------------------------------------------------
(* ReportGenerator *)

\* main.py:56-60: the dictionary main() hands to generate()
MainReportArg(metrics_data, analysis_results, crawl_results) ==
    Dict([metrics       |-> metrics_data,
          analysis      |-> analysis_results,
          crawl_results |-> List(crawl_results)])

\* the analysis computed, where analyze() returns, whatever include_analysis says
BuildReport_AlwaysAnalyzes(metrics_data, now) ==
    Dict([timestamp |-> Stamp(now),
          version   |-> Str("1.0"),
          metrics   |-> metrics_data,
          analysis  |-> IF AnalyzeRaises(metrics_data)
                           THEN Dict(EmptyMap)
                           ELSE AnalysisResult(metrics_data, now)])

\* report_generator.py:49-65: the report generate() assembles from its
\* argument at the instant `now`
BuildReport(metrics_data, now) ==
    Dict([timestamp |-> Stamp(now),
          version   |-> Str("1.0"),
          metrics   |-> metrics_data,
          analysis  |-> IF include_analysis
                           THEN AnalysisResult(metrics_data, now)
                           ELSE Dict(EmptyMap)])

\* report_generator.py:83-84, 90: the artifact's path, derived from the
\* report's timestamp
ReportFile(now, ext) == <<"performance_report", now, ext>>

\* what a file holds after json.dump() failed part-way
Partial == [partial |-> TRUE]

\* every listed format written under its own extension
RECURSIVE SaveReport_EveryFormat(_, _, _, _, _, _)
SaveReport_EveryFormat(i, outs, fs, paths, rep, by) ==
    IF i > Len(formats)
    THEN [files |-> fs, exc |-> "none",
          path |-> IF Len(paths) > 0 THEN [path |-> paths[1]] ELSE Str("")]
    ELSE LET file_path == ReportFile(rep.dict.timestamp.stamp, formats[i]) IN
         CASE outs[i] = "ok" ->
                SaveReport_EveryFormat(i + 1, outs,
                                       MapSet(fs, file_path, [content |-> rep, by |-> by]),
                                       Append(paths, file_path), rep, by)
           [] outs[i] = "open_fails" ->
                [files |-> fs, exc |-> "OSError", path |-> None]
           [] outs[i] = "dump_fails" ->
                [files |-> MapSet(fs, file_path, [content |-> Partial, by |-> by]),
                 exc |-> "OSError", path |-> None]

\* report_generator.py:88-99: _save_report()'s loop from format i on, with the
\* outcome outs[i] of writing format i; `by` is the number of the call
RECURSIVE SaveReport(_, _, _, _, _, _)
SaveReport(i, outs, fs, paths, rep, by) ==
    IF i > Len(formats)
    THEN [files |-> fs, exc |-> "none",
          path |-> IF Len(paths) > 0 THEN [path |-> paths[1]] ELSE Str("")]
    ELSE IF formats[i] # "json"
    THEN SaveReport(i + 1, outs, fs, paths, rep, by)
    ELSE LET file_path == ReportFile(rep.dict.timestamp.stamp, "json") IN
         CASE outs[i] = "ok" ->
                SaveReport(i + 1, outs, MapSet(fs, file_path, [content |-> rep, by |-> by]),
                           Append(paths, file_path), rep, by)
           [] outs[i] = "open_fails" ->
                [files |-> fs, exc |-> "OSError", path |-> None]
           [] outs[i] = "dump_fails" ->
                [files |-> MapSet(fs, file_path, [content |-> Partial, by |-> by]),
                 exc |-> "OSError", path |-> None]

\* the other variables, which a ReportGenerator call leaves alone
reportFrame == <<crawlerVars, driverVars, clock, collectVars, mpc, analyzeVars,
                 include_analysis, formats, configVars>>

\* report_generator.py:27-39: the constructor creates the output directory
\* when it is absent; os.makedirs may fail
NewReportGenerator ==
    /\ rpc = "new"
    /\ \/ /\ dir_exists
          /\ rpc' = "ready"
          /\ UNCHANGED <<dir_exists, generateExc>>
       \/ /\ ~dir_exists
          /\ dir_exists' = TRUE
          /\ rpc' = "ready"
          /\ UNCHANGED generateExc
       \/ /\ ~dir_exists
          /\ rpc' = "raised"
          /\ generateExc' = "OSError"
          /\ UNCHANGED dir_exists
    /\ UNCHANGED <<reportFrame, files, calls, rinput, report, report_path, analyze_calls>>

\* the snapshots and crawl results a caller hands to generate()
SampleSnapshots ==
    { Snapshot(0, MapSet(EmptyMap, "system", SystemMetrics)),
      Snapshot(0, MapSet(MapSet(EmptyMap, "system", SystemMetrics), "http",
                         List(<<HttpFailureEntry("a")>>))) }

SampleCrawl == <<CrawlRecord("a", 200, 0)>>

ReportInputs ==
    {None} \cup SampleSnapshots
           \cup {MainReportArg(m, AnalysisResult(m, 0), SampleCrawl) : m \in SampleSnapshots}

\* report_generator.py:41-71: one generate(metrics_data) call
Generate ==
    /\ rpc = "ready"
    /\ calls < MaxReports
    /\ calls' = calls + 1
    /\ \E metrics_data \in ReportInputs, outs \in [1..Len(formats) -> WriteOutcomes] :
          /\ rinput' = metrics_data
          /\ IF include_analysis /\ AnalyzeRaises(metrics_data)
             THEN \* analyze() raises and generate() with it: nothing is written
                  /\ generateExc' = "AttributeError"
                  /\ analyze_calls' = analyze_calls + 1
                  /\ UNCHANGED <<files, report, report_path>>
             ELSE LET rep   == BuildReport(metrics_data, clock)
                      saved == SaveReport(1, outs, files, <<>>, rep, calls + 1)
                  IN  /\ report' = rep
                      /\ analyze_calls' = analyze_calls + (IF include_analysis THEN 1 ELSE 0)
                      /\ files' = saved.files
                      /\ generateExc' = saved.exc
                      /\ IF saved.exc = "none"
                            THEN report_path' = saved.path
                            ELSE UNCHANGED report_path
    /\ UNCHANGED <<reportFrame, dir_exists, rpc>>

\* time passes between two generate() calls
TickReport ==
    /\ rpc = "ready"
    /\ clock < MaxClock
    /\ clock' = clock + 1
    /\ UNCHANGED <<crawlerVars, driverVars, collectVars, mpc, analyzeVars, reportVars, configVars>>

----------------------------------------------------------------------------
(* Config *)

(* A text (a dotted key, an environment variable's name) is the sequence of  *)
(* its words and of the separators "_" and "." between them:                 *)
(* 'crawler.max_depth' is <<"crawler", ".", "max", "_", "depth">>.           *)

\* config.py:38: the prefix of the override variables, 'SPEC_KIT_'
SPEC_KIT == <<"SPEC", "_", "KIT", "_">>

\* str.startswith(p)
StartsWith(s, p) == Len(s) >= Len(p) /\ SubSeq(s, 1, Len(p)) = p

\* str.replace(p, ""): every occurrence of p is removed, from the left
RECURSIVE Remove(_, _)
Remove(s, p) ==
    IF s = <<>> THEN <<>>
    ELSE IF StartsWith(s, p) THEN Remove(SubSeq(s, Len(p) + 1, Len(s)), p)
    ELSE <<Head(s)>> \o Remove(Tail(s), p)

\* str.lower() of one word
LowerWord(w) ==
    CASE w = "CRAWLER" -> "crawler"
      [] w = "DELAY"   -> "delay"
      [] w = "MAX"     -> "max"
      [] w = "DEPTH"   -> "depth"
      [] w = "SPEC"    -> "spec"
      [] w = "KIT"     -> "kit"
      [] w = "PATH"    -> "path"
      [] OTHER         -> w

\* str.lower()
Lower(s) == [i \in DOMAIN s |-> LowerWord(s[i])]

\* str.replace("_", ".")
UnderscoresToDots(s) == [i \in DOMAIN s |-> IF s[i] = "_" THEN "." ELSE s[i]]

\* str.split('.'): the segments between the dots, empty ones included
RECURSIVE Split(_)
Split(s) ==
    IF \A i \in DOMAIN s : s[i] # "." THEN <<s>>
    ELSE LET i == CHOOSE i \in DOMAIN s : s[i] = "." /\ \A j \in 1..(i - 1) : s[j] # "."
         IN  <<SubSeq(s, 1, i - 1)>> \o Split(SubSeq(s, i + 1, Len(s)))

\* config.py:39: the dotted key an override variable's name stands for
EnvKey(name) == UnderscoresToDots(Lower(Remove(name, SPEC_KIT)))

\* a Config method's outcome: the exception it raised (or "none") and the
\* dictionary it leaves
Outcome(exc, cfg) == [exc |-> exc, cfg |-> cfg]

\* config.py:44-50: _set_nested's walk from the value d on, along keys.
\* Only a dict takes `k not in d`, d[k] and d[k] = v with a string k without
\* a TypeError; the value left behind holds whatever the walk created.
RECURSIVE SetWalk_Clobber(_, _, _)
SetWalk_Clobber(d, keys, value) ==
    IF ~IsDict(d) THEN Outcome("TypeError", d)
    ELSE IF Len(keys) = 1 THEN Outcome("none", Dict(MapSet(d.dict, keys[1], value)))
    ELSE LET r == SetWalk_Clobber(Dict(EmptyMap), Tail(keys), value)
         IN  Outcome(r.exc, Dict(MapSet(d.dict, keys[1], r.cfg)))

\* a value that is not a mapping gives way to a fresh mapping
RECURSIVE SetWalk_Replace(_, _, _)
SetWalk_Replace(d, keys, value) ==
    LET m == IF IsDict(d) THEN d.dict ELSE EmptyMap IN
    IF Len(keys) = 1 THEN Outcome("none", Dict(MapSet(m, keys[1], value)))
    ELSE LET child == IF keys[1] \in DOMAIN m THEN m[keys[1]] ELSE Dict(EmptyMap)
             r     == SetWalk_Replace(child, Tail(keys), value)
         IN  Outcome(r.exc, Dict(MapSet(m, keys[1], r.cfg)))

RECURSIVE SetWalk(_, _, _)
SetWalk(d, keys, value) ==
    IF ~IsDict(d) THEN Outcome("TypeError", d)
    ELSE IF Len(keys) = 1 THEN Outcome("none", Dict(MapSet(d.dict, keys[1], value)))
    ELSE LET child == IF keys[1] \in DOMAIN d.dict THEN d.dict[keys[1]] ELSE Dict(EmptyMap)
             r     == SetWalk(child, Tail(keys), value)
         IN  Outcome(r.exc, Dict(MapSet(d.dict, keys[1], r.cfg)))

\* config.py:42-50: _set_nested(key, value) on the dictionary cfg
SetNested(cfg, key, value) == SetWalk(cfg, Split(key), value)

\* config.py:61-64: the walk value = value[k] of get(), from `value` on.
\* A missing key of a dict is a KeyError; indexing anything else with a
\* string is a TypeError.
RECURSIVE GetWalk(_, _)
GetWalk(value, keys) ==
    IF keys = <<>> THEN [exc |-> "none", val |-> value]
    ELSE IF ~IsDict(value) THEN [exc |-> "TypeError", val |-> None]
    ELSE IF keys[1] \notin DOMAIN value.dict THEN [exc |-> "KeyError", val |-> None]
    ELSE GetWalk(value.dict[keys[1]], Tail(keys))

\* config.py:52-66: get(key, default); only the KeyError is caught
ConfigGetResult(cfg, key, default) ==
    LET r == GetWalk(cfg, Split(key)) IN
    IF r.exc = "KeyError" THEN [exc |-> "none", val |-> default] ELSE r

\* the configuration files of the scenario, by what yaml.safe_load makes of them
Unparsable == [yamlerror |-> TRUE]

NoFile == ""

ConfigFiles == {"base.yaml", "flat.yaml", "bad.yaml", "list.yaml"}

\* config_file arguments: None, the files, and a path where no file is
ConfigFileArgs == {NoFile, "missing.yaml"} \cup ConfigFiles

SafeLoad(file) ==
    CASE file = "base.yaml" ->
            Dict((<<"crawler">> :>
                    Dict((<<"delay">> :> Num(1)) @@ (<<"max", "_", "depth">> :> Num(2)))))
      [] file = "flat.yaml" ->
            Dict((<<"crawler">> :> Str("off")) @@ (<<"delay">> :> Num(5))
                 @@ (<<"timeout">> :> List(<<Num(1)>>)) @@ (<<"metrics">> :> None))
      [] file = "bad.yaml" -> Unparsable
      [] file = "list.yaml" -> List(<<Num(1)>>)

\* a file that cannot be loaded is passed over
LoadFromYaml_Lenient(cfg, file_path) ==
    LET yaml_config == SafeLoad(file_path) IN
    IF yaml_config = Unparsable THEN Outcome("none", cfg)
    ELSE IF ~Truthy(yaml_config) THEN Outcome("none", cfg)
    ELSE IF ~IsDict(yaml_config) THEN Outcome("none", cfg)
    ELSE Outcome("none", Dict(yaml_config.dict @@ cfg.dict))

\* config.py:24-32: load_from_yaml(file_path) on the dictionary cfg; every
\* failure is re-raised as a RuntimeError
LoadFromYaml(cfg, file_path) ==
    LET yaml_config == SafeLoad(file_path) IN
    IF yaml_config = Unparsable THEN Outcome("RuntimeError", cfg)
    ELSE IF ~Truthy(yaml_config) THEN Outcome("none", cfg)
    ELSE IF ~IsDict(yaml_config) THEN Outcome("RuntimeError", cfg)
    ELSE Outcome("none", Dict(yaml_config.dict @@ cfg.dict))

\* config.py:34-40: load_from_env() over the entries env, in their order
RECURSIVE LoadFromEnv(_, _)
LoadFromEnv(cfg, env) ==
    IF env = <<>> THEN Outcome("none", cfg)
    ELSE IF ~StartsWith(env[1].name, SPEC_KIT) THEN LoadFromEnv(cfg, Tail(env))
    ELSE LET r == SetNested(cfg, EnvKey(env[1].name), env[1].value)
         IN  IF r.exc # "none" THEN r ELSE LoadFromEnv(r.cfg, Tail(env))

\* the override layer loaded before the file layer
NewConfig_EnvFirst(config_file, env) ==
    LET e == LoadFromEnv(Dict(EmptyMap), env) IN
    IF e.exc # "none" THEN e
    ELSE IF config_file # NoFile /\ config_file \in ConfigFiles
    THEN LoadFromYaml(e.cfg, config_file)
    ELSE e

\* config.py:14-22: Config(config_file) in the environment env
NewConfig(config_file, env) ==
    LET y == IF config_file # NoFile /\ config_file \in ConfigFiles
                THEN LoadFromYaml(Dict(EmptyMap), config_file)
                ELSE Outcome("none", Dict(EmptyMap))
    IN  IF y.exc # "none" THEN y ELSE LoadFromEnv(y.cfg, env)

\* a fresh Config object built by every call
GetConfigReuses_Never(instance) == FALSE

\* config.py:87: get_config() reuses the instance once there is one
GetConfigReuses(instance) == instance # 0

\* the names of environment variables: three overrides and one other variable
EnvNames ==
    { SPEC_KIT \o <<"CRAWLER">>,
      SPEC_KIT \o <<"CRAWLER", "_", "DELAY">>,
      SPEC_KIT \o <<"CRAWLER", "_", "MAX", "_", "DEPTH">>,
      <<"PATH">> }

MaxEnv == 2

\* an environment: at most MaxEnv variables of distinct names; every value
\* of os.environ is a string
Environments ==
    { e \in SeqsUpTo([name : EnvNames, value : {Str("env")}], MaxEnv) :
        \A i, j \in DOMAIN e : i # j => e[i].name # e[j].name }

\* the dotted keys callers use
Keys ==
    { <<"crawler">>,
      <<"crawler", ".", "delay">>,
      <<"crawler", ".", "max", "_", "depth">>,
      <<"crawler", ".", "delay", ".", "unit">>,
      <<"delay", ".", "unit">>,
      <<"timeout", ".", "unit">>,
      <<"metrics", ".", "sources">> }

MaxRefs == 2

MaxSets == 1

NoOp == [op |-> "none", ref |-> 0, file |-> NoFile, key |-> <<>>, value |-> None,
         result |-> None, exc |-> "none"]

\* the variables a Config operation leaves alone
configFrame == <<crawlerVars, driverVars, clock, collectVars, mpc, analyzeVars,
                 reportVars, os_environ>>

\* config.py:80-89: one get_config(config_file) call
GetConfig ==
    /\ Len(refs) < MaxRefs
    /\ \E config_file \in ConfigFileArgs :
          IF GetConfigReuses(config_instance)
          THEN /\ refs' = Append(refs, config_instance)
               /\ cop' = [NoOp EXCEPT !.op = "get_config", !.file = config_file,
                                      !.ref = config_instance]
               /\ UNCHANGED <<config_instance, heap, loaded_file>>
          ELSE LET c == NewConfig(config_file, os_environ) IN
               IF c.exc = "none"
               THEN /\ heap' = Append(heap, c.cfg)
                    /\ config_instance' = Len(heap) + 1
                    /\ refs' = Append(refs, Len(heap) + 1)
                    /\ loaded_file' = config_file
                    /\ cop' = [NoOp EXCEPT !.op = "get_config", !.file = config_file,
                                           !.ref = Len(heap) + 1]
               ELSE /\ refs' = Append(refs, 0)
                    /\ cop' = [NoOp EXCEPT !.op = "get_config", !.file = config_file,
                                           !.exc = c.exc]
                    /\ UNCHANGED <<config_instance, heap, loaded_file>>
    /\ prev_heap' = heap
    /\ UNCHANGED <<configFrame, sets, last_set>>

\* config.py:68-74: one set(key, value) call through a reference a caller holds
ConfigSet ==
    /\ sets < MaxSets
    /\ sets' = sets + 1
    /\ \E i \in DOMAIN refs, key \in Keys :
          /\ refs[i] # 0
          /\ LET r == SetNested(heap[refs[i]], key, Str("set")) IN
             /\ heap' = [heap EXCEPT ![refs[i]] = r.cfg]
             /\ cop' = [NoOp EXCEPT !.op = "set", !.ref = refs[i], !.key = key,
                                    !.value = Str("set"), !.exc = r.exc]
    /\ last_set' = cop'
    /\ prev_heap' = heap
    /\ UNCHANGED <<configFrame, config_instance, refs, loaded_file>>

\* config.py:52-66: one get(key, default) call through a reference a caller holds
ConfigGet ==
    /\ \E i \in DOMAIN refs, key \in Keys :
          /\ refs[i] # 0
          /\ LET r == ConfigGetResult(heap[refs[i]], key, Str("default")) IN
             cop' = [NoOp EXCEPT !.op = "get", !.ref = refs[i], !.key = key,
                                 !.value = Str("default"), !.result = r.val,
                                 !.exc = r.exc]
    /\ prev_heap' = heap
    /\ UNCHANGED <<configFrame, config_instance, heap, refs, loaded_file, sets, last_set>>

----------------------------------------------------------------------------
(* Initial states and specifications *)

InitCrawler ==
    /\ base_urls \in SeqsUpTo(Locators, MaxSeeds)
    /\ max_depth \in DepthChoices
    /\ delay_ok \in BOOLEAN
    /\ idx = 1
    /\ results = <<>>
    /\ seen_urls = {}
    /\ fetchLog = <<>>

\* no crawl in this specification
IdleCrawler ==
    /\ base_urls = <<>>
    /\ max_depth = 2
    /\ delay_ok = TRUE
    /\ idx = 1
    /\ results = <<>>
    /\ seen_urls = {}
    /\ fetchLog = <<>>

InitDriver ==
    /\ stages = <<>>
    /\ mainExc = "none"

\* the state of a collect() call that has not started
CollectNotStarted ==
    /\ src_idx = 1
    /\ ep_idx = 1
    /\ md_timestamp = 0
    /\ md_sources = EmptyMap
    /\ http_metrics = <<>>
    /\ probeLog = <<>>
    /\ probeStatus = <<>>
    /\ snapshot = None
    /\ collectExc = "none"

InitCollector ==
    /\ metrics_sources \in SeqsUpTo(SourceNames, MaxSources)
    /\ http_endpoints \in SeqsUpTo(Locators, MaxEndpoints)
    /\ CollectNotStarted

InitAnalyzer ==
    /\ ainput = None
    /\ analysis = None
    /\ analyzeExc = "none"
    /\ analysis2 = None

\* the state of a ReportGenerator that has not been constructed
ReportNotStarted ==
    /\ files = EmptyMap
    /\ calls = 0
    /\ rinput = None
    /\ report = None
    /\ report_path = None
    /\ generateExc = "none"
    /\ analyze_calls = 0

InitReporter ==
    /\ include_analysis \in BOOLEAN
    /\ formats \in SeqsUpTo(FormatNames, MaxFormats)
    /\ dir_exists \in BOOLEAN
    /\ ReportNotStarted

\* no Config has been asked for
ConfigNotStarted ==
    /\ config_instance = 0
    /\ heap = <<>>
    /\ refs = <<>>
    /\ loaded_file = NoFile
    /\ sets = 0
    /\ cop = NoOp
    /\ last_set = NoOp
    /\ prev_heap = <<>>

vars == <<crawlerVars, driverVars, clock, collectVars, mpc, analyzeVars, reportVars, configVars>>

\* The pipeline driver: main() (main.py:34-67) with a configuration of the
\* scenario's kind: any seed list, the system source alone or with http, no
\* endpoint, the default report settings
Init ==
    /\ InitCrawler /\ InitDriver /\ pc = "main"
    /\ clock = 0
    /\ metrics_sources \in {<<"system">>, <<"system", "http">>}
    /\ http_endpoints = <<>>
    /\ CollectNotStarted /\ mpc = "off"
    /\ InitAnalyzer
    /\ include_analysis = TRUE /\ formats = <<"json">> /\ dir_exists \in BOOLEAN
    /\ ReportNotStarted /\ rpc = "off"
    /\ os_environ = <<>> /\ ConfigNotStarted

Next == MainCrawl \/ CrawlSeed \/ CrawlReturn \/ MainLogCrawl

Spec == Init /\ [][Next]_vars

\* A caller of MetricsCollector.collect() and Analyzer.analyze()
InitMeasure ==
    /\ IdleCrawler /\ InitDriver /\ pc = "off"
    /\ clock = 0
    /\ InitCollector /\ mpc = "idle"
    /\ InitAnalyzer
    /\ include_analysis = TRUE /\ formats = <<"json">> /\ dir_exists = TRUE
    /\ ReportNotStarted /\ rpc = "off"
    /\ os_environ = <<>> /\ ConfigNotStarted

NextMeasure ==
    \/ CollectBegin \/ CollectSource \/ ProbeEndpoint \/ HttpReturn \/ CollectReturn
    \/ AnalyzeSnapshot \/ AnalyzeAbsent \/ AnalyzeAgain \/ Tick

SpecMeasure == InitMeasure /\ [][NextMeasure]_vars

\* A caller that constructs a ReportGenerator and calls generate()
InitReport ==
    /\ IdleCrawler /\ InitDriver /\ pc = "off"
    /\ clock = 0
    /\ metrics_sources = <<>> /\ http_endpoints = <<>>
    /\ CollectNotStarted /\ mpc = "off"
    /\ InitAnalyzer
    /\ InitReporter /\ rpc = "new"
    /\ os_environ = <<>> /\ ConfigNotStarted

NextReport == NewReportGenerator \/ Generate \/ TickReport

SpecReport == InitReport /\ [][NextReport]_vars

\* A process that asks for the configuration with get_config() and reads and
\* writes it through the references it was given
InitConfig ==
    /\ IdleCrawler /\ InitDriver /\ pc = "off"
    /\ clock = 0
    /\ metrics_sources = <<>> /\ http_endpoints = <<>>
    /\ CollectNotStarted /\ mpc = "off"
    /\ InitAnalyzer
    /\ include_analysis = TRUE /\ formats = <<"json">> /\ dir_exists = TRUE
    /\ ReportNotStarted /\ rpc = "off"
    /\ os_environ \in Environments
    /\ ConfigNotStarted

NextConfig == GetConfig \/ ConfigSet \/ ConfigGet

SpecConfig == InitConfig /\ [][NextConfig]_vars

----------------------------------------------------------------------------
(* Claims about the Crawler, under Spec *)

\* crawl() has returned to main()
CrawlReturned == Len(stages) >= 2

\* an exception left crawl()
CrawlRaised == pc = "raised" /\ Len(stages) = 1

\* C1: within one crawl() call every locator is fetched at most once and
\* appears in the returned list at most once, whatever the seed list repeats.
C1_Dedup ==
    /\ \A i, j \in DOMAIN fetchLog : fetchLog[i].url = fetchLog[j].url => i = j
    /\ \A i, j \in DOMAIN results : results[i].url = results[j].url => i = j

\* crawl() returned for a seed list that repeats a locator it has a record of
C1_Witness ==
    /\ pc = "crawled"
    /\ \E i, j \in DOMAIN base_urls :
          /\ i < j
          /\ base_urls[i] = base_urls[j]
          /\ \E r \in DOMAIN results : results[r].url = base_urls[i]

\* C8: a fetch that fails, for whatever reason, leaves no record of its
\* locator, raises nothing out of crawl(), and every later seed that was not
\* visited before its turn is still fetched.
C8_FetchFailureIsolated ==
    \A k \in DOMAIN fetchLog :
        fetchLog[k].outcome # "ok" =>
            /\ \A r \in DOMAIN results : results[r].url # fetchLog[k].url
            /\ ~CrawlRaised
            /\ CrawlReturned =>
                  \A j \in DOMAIN base_urls :
                      (/\ j > fetchLog[k].at
                       /\ \A i \in 1..(j - 1) : base_urls[i] # base_urls[j])
                      => \E m \in DOMAIN fetchLog : fetchLog[m].at = j

\* crawl() returned after a fetch raised something other than a
\* RequestException and a later seed was fetched and recorded
C8_Witness ==
    /\ pc = "crawled"
    /\ \E k, m \in DOMAIN fetchLog :
          /\ k < m
          /\ fetchLog[k].outcome = "Exception"
          /\ fetchLog[m].outcome = "ok"
          /\ \E r \in DOMAIN results : results[r].url = fetchLog[m].url

\* C9: with max_depth = 0 crawl() returns at most len(seeds) records, at most
\* one per seed, each of a seed and each with depth 0.
C9_DepthZero ==
    max_depth = 0 =>
        /\ Len(results) <= Len(base_urls)
        /\ \A r \in DOMAIN results :
              /\ results[r].depth = 0
              /\ \E i \in DOMAIN base_urls : base_urls[i] = results[r].url
        /\ \A q, r \in DOMAIN results : results[q].url = results[r].url => q = r

\* crawl() returned with max_depth = 0, some records, and fewer than seeds
C9_Witness ==
    /\ max_depth = 0
    /\ pc = "crawled"
    /\ Len(results) >= 1
    /\ Len(results) < Len(base_urls)

\* C22: after every fetch attempt of crawl(), failed or not, the crawler
\* sleeps before the next locator is fetched: every fetch that is followed by
\* another one was followed by a sleep first.
C22_DelayBetweenFetches ==
    \A k \in DOMAIN fetchLog : k < Len(fetchLog) => fetchLog[k].slept

\* the positions of the seed list at which a locator occurs for the first time
FirstOccurrences ==
    {j \in DOMAIN base_urls : \A i \in 1..(j - 1) : base_urls[i] # base_urls[j]}

\* the fetches that ended with a record
Recorded == {k \in DOMAIN fetchLog : fetchLog[k].outcome = "ok" /\ fetchLog[k].slept}

C27_FailedLocatorNotRetried ==
    \A k \in DOMAIN fetchLog :
        /\ fetchLog[k].url \in seen_urls
        /\ fetchLog[k].outcome # "ok" =>
              /\ \A m \in DOMAIN fetchLog : fetchLog[m].url = fetchLog[k].url => m = k
              /\ \A r \in DOMAIN results : results[r].url # fetchLog[k].url

\* crawl() returned for a seed list that repeats a locator whose fetch failed
C27_Witness ==
    /\ pc = "crawled"
    /\ \E k \in DOMAIN fetchLog :
          /\ fetchLog[k].outcome # "ok"
          /\ \E j \in DOMAIN base_urls : j > fetchLog[k].at /\ base_urls[j] = fetchLog[k].url

\* C25: a response of any status is not a failure: the Crawler has a record
\* with the status of every response the transport delivered, and the
\* MetricsCollector a success=true entry with it; a fetch with no response
\* has no record, a probe with none a success=false entry.
C25_StatusIsNotFailure ==
    /\ \A k \in DOMAIN fetchLog :
          IF fetchLog[k].outcome = "ok"
          THEN \E r \in DOMAIN results :
                  /\ results[r].url = fetchLog[k].url
                  /\ results[r].status_code = fetchLog[k].status
          ELSE \A r \in DOMAIN results : results[r].url # fetchLog[k].url
    /\ \A i \in DOMAIN probeLog \cap DOMAIN http_metrics :
          IF probeLog[i] = "ok"
          THEN /\ http_metrics[i].dict.success = Bool(TRUE)
               /\ http_metrics[i].dict.status_code = Num(probeStatus[i])
          ELSE http_metrics[i].dict.success = Bool(FALSE)

----------------------------------------------------------------------------
(* Claims about the pipeline driver, under Spec *)

AllStages ==
    <<"Discover.start", "Discover.end", "Measure.start", "Measure.end",
      "Analyze.start", "Analyze.end", "Report.start", "Report.end">>

MainEnded == pc \in {"done", "raised"}

\* C5: the stages run strictly in the order Discover, Measure, Analyze,
\* Report, none starting before the previous one returned, and a run in which
\* no stage raises executes all four exactly once.
C5_StagesInOrder ==
    /\ Len(stages) <= Len(AllStages)
    /\ stages = SubSeq(AllStages, 1, Len(stages))
    /\ (MainEnded /\ ~CrawlRaised) => stages = AllStages

\* C6: with the system source alone and no endpoint, a run ends without an
\* exception, with exactly one 'system' measurement source, has_errors false
\* and exactly one artifact file, whether the seed fetches succeed or fail.
C6_RunsToCompletion ==
    (MainEnded /\ metrics_sources = <<"system">>) =>
        /\ mainExc = "none"
        /\ IsDict(snapshot)
        /\ DOMAIN snapshot.dict.sources.dict = {"system"}
        /\ IsDict(analysis)
        /\ analysis.dict.summary.dict.has_errors = Bool(FALSE)
        /\ Cardinality(DOMAIN files) = 1

----------------------------------------------------------------------------
(* Claims about MetricsCollector and Analyzer, under SpecMeasure *)

HttpListed == \E i \in DOMAIN metrics_sources : metrics_sources[i] = "http"

\* C2: with N endpoints of which any subset fails at transport level, the
\* 'http' source holds N entries in configuration order, a failure entry
\* {url, error, success=false} for each failed probe and a success entry for
\* each other, and no exception leaves collect(); every endpoint is probed.
C2_PartialFailureIsolation ==
    /\ collectExc # "none" => \E i \in DOMAIN probeLog : probeLog[i] = "Exception"
    /\ mpc = "http" =>
          /\ Len(probeLog) = ep_idx - 1
          /\ Len(http_metrics) = Len(probeLog)
    /\ (IsDict(snapshot) /\ HttpListed) =>
          LET http == snapshot.dict.sources.dict.http.list IN
          /\ Len(http) = Len(http_endpoints)
          /\ \A i \in DOMAIN http :
                /\ http[i].dict.url = Str(http_endpoints[i])
                /\ probeLog[i] = "RequestException" =>
                      /\ DOMAIN http[i].dict = {"url", "error", "success"}
                      /\ http[i].dict.success = Bool(FALSE)
                /\ probeLog[i] = "ok" =>
                      /\ http[i].dict.success = Bool(TRUE)
                      /\ "error" \notin DOMAIN http[i].dict

\* collect() returned after the first of two endpoints failed and the second
\* answered
C2_Witness ==
    /\ mpc = "collected"
    /\ Len(http_endpoints) = 2
    /\ probeLog = <<"RequestException", "ok">>

\* some metric entry nested in a source of the snapshot has a truthy 'error'
NestedError(metrics_data) ==
    \E s \in DOMAIN metrics_data.dict.sources.dict :
        LET v == metrics_data.dict.sources.dict[s] IN
        \/ IsDict(v) /\ Truthy(DictGet(v, "error"))
        \/ IsList(v) /\ \E i \in DOMAIN v.list : Truthy(DictGet(v.list[i], "error"))

\* C3: summary.has_errors is true iff some nested metric entry of some source
\* carries a truthy 'error' field.
C3_HasErrorsIff ==
    (mpc = "analyzed" /\ Truthy(ainput) /\ analyzeExc = "none") =>
        analysis.dict.summary.dict.has_errors = Bool(NestedError(ainput))

\* the snapshot has an http entry with success = false
HasFailedHttpEntry(metrics_data) ==
    /\ "http" \in DOMAIN metrics_data.dict.sources.dict
    /\ \E i \in DOMAIN metrics_data.dict.sources.dict.http.list :
          metrics_data.dict.sources.dict.http.list[i].dict.success = Bool(FALSE)

\* C4: analyze() of a collect() snapshot with a failed http entry yields
\* has_errors = true and a non-empty insights list.
C4_ErrorPropagation ==
    (mpc = "analyzed" /\ IsDict(snapshot) /\ HasFailedHttpEntry(snapshot)) =>
        /\ analyzeExc = "none"
        /\ analysis.dict.summary.dict.has_errors = Bool(TRUE)
        /\ Len(analysis.dict.insights.list) > 0

\* C10: analyze() of an empty or absent snapshot raises nothing and returns a
\* summary that flags the absence.
C10_AbsentSnapshotNoRaise ==
    (mpc = "analyzed" /\ ~Truthy(ainput)) =>
        /\ analyzeExc = "none"
        /\ "error" \in DOMAIN analysis.dict.summary.dict

\* C11: two analyze() calls on the same snapshot, at any two times, return
\* equal results (summary, insights, recommendations), and the snapshot is
\* left as it was.
C11_AnalyzePure ==
    (mpc = "analyzed2" /\ analyzeExc = "none") =>
        /\ analysis2.dict.insights = analysis.dict.insights
        /\ analysis2.dict.recommendations = analysis.dict.recommendations
        /\ analysis2.dict.summary = analysis.dict.summary
        /\ (IsDict(snapshot) => ainput = snapshot)

\* C12: on a collect() snapshot, summary.total_metrics is the number of keys
\* under 'sources'.
C12_TotalMetricsCountsSources ==
    (mpc = "analyzed" /\ IsDict(snapshot) /\ analyzeExc = "none") =>
        analysis.dict.summary.dict.total_metrics
            = Num(Cardinality(DOMAIN snapshot.dict.sources.dict))

\* the names of metrics_sources that collect() knows
RecognisedListed ==
    {metrics_sources[i] : i \in DOMAIN metrics_sources} \cap {"system", "http"}

NonEmptySources ==
    {k \in DOMAIN snapshot.dict.sources.dict : Truthy(snapshot.dict.sources.dict[k])}

\* C24: with no endpoint configured and the sources 'system' and 'http',
\* the count collect() returns is that of the non-empty sources: 'http',
\* having no entry, is not counted.
C24_EmptyHttpNotCounted ==
    (/\ IsDict(snapshot)
     /\ http_endpoints = <<>>
     /\ metrics_sources \in {<<"system", "http">>, <<"http", "system">>}) =>
        /\ snapshot.dict.collected_count = Num(Cardinality(NonEmptySources))
        /\ snapshot.dict.collected_count = Num(1)

\* C28: a probe that raises anything but a request-library failure ends
\* collect(): no later endpoint or source is visited, the exception is the
\* caller's, and no snapshot is returned, whatever had been collected.
C28_OtherExceptionEndsCollect ==
    /\ (\E i \in DOMAIN probeLog : probeLog[i] = "Exception") =>
          /\ mpc = "raised"
          /\ collectExc = "Exception"
          /\ snapshot = None
          /\ probeLog[Len(probeLog)] = "Exception"
          /\ \A i \in 1..(Len(probeLog) - 1) : probeLog[i] # "Exception"
          /\ ep_idx = Len(probeLog) + 1
    /\ mpc = "raised" => probeLog[Len(probeLog)] = "Exception"

\* collect() raised after the system source and a first endpoint had given
\* their entries, with an endpoint still to probe
C28_Witness ==
    /\ mpc = "raised"
    /\ "system" \in DOMAIN md_sources
    /\ Len(http_metrics) = 1
    /\ probeLog = <<"ok", "Exception">>
    /\ snapshot = None

----------------------------------------------------------------------------
(* Claims about ReportGenerator, under SpecReport *)

IsMainReportArg(v) ==
    IsDict(v) /\ DOMAIN v.dict = {"metrics", "analysis", "crawl_results"}

\* C7: the report persisted for the stages' outputs has the fields timestamp,
\* version, metrics, analysis and discovery; metrics is the Measure stage's
\* snapshot, analysis the Analyzer's result and discovery the Discover
\* stage's records.
C7_ReportFields ==
    (/\ calls > 0
     /\ generateExc = "none"
     /\ IsMainReportArg(rinput)
     /\ DOMAIN report_path = {"path"}) =>
        LET persisted == files[report_path.path].content IN
        /\ DOMAIN persisted.dict = {"timestamp", "version", "metrics", "analysis", "discovery"}
        /\ persisted.dict.metrics = rinput.dict.metrics
        /\ persisted.dict.analysis = rinput.dict.analysis
        /\ persisted.dict.discovery = rinput.dict.crawl_results

\* a generate() call has ended, by returning or by raising
GenerateEnded == rpc = "ready" /\ calls > 0

ListsJson == \E i \in DOMAIN formats : formats[i] = "json"

\* the files the last generate() call wrote
WrittenNow == {p \in DOMAIN files : files[p].by = calls}

ReportedSuccess == GenerateEnded /\ generateExc = "none"

\* C15: a failure to create the output directory or to write the artifact
\* leaves the Reporter as an error, and a report is announced as generated
\* only when the call wrote an artifact file.
C15_SuccessMeansWritten ==
    /\ rpc = "raised" => generateExc = "OSError"
    /\ (GenerateEnded /\ \E p \in WrittenNow : files[p].content = Partial) =>
          generateExc = "OSError"
    /\ ReportedSuccess =>
          \E p \in WrittenNow : files[p].content = report

\* C16: with include_analysis off, generate() never calls the Analyzer and
\* every report it persists has an empty analysis field; with it on, the
\* field holds the Analyzer's result for the report's metrics.
C16_AnalysisOnlyWhenAsked ==
    /\ ~include_analysis =>
          /\ analyze_calls = 0
          /\ \A p \in DOMAIN files : files[p].content # Partial =>
                files[p].content.dict.analysis = Dict(EmptyMap)
    /\ include_analysis =>
          /\ analyze_calls = calls
          /\ \A p \in DOMAIN files : files[p].content # Partial =>
                LET persisted == files[p].content.dict IN
                persisted.analysis = AnalysisResult(persisted.metrics, persisted.timestamp.stamp)

\* a report was persisted with include_analysis off
C16_Witness ==
    /\ ~include_analysis
    /\ GenerateEnded
    /\ \E p \in WrittenNow : files[p].content = report

\* C23: no generate() call writes again an artifact file that an earlier
\* call wrote: what a path holds, and the call it holds it from, never change.
C23_NoOverwrite ==
    [][\A p \in DOMAIN files : files'[p] = files[p]]_vars

----------------------------------------------------------------------------
(* Claims about Config, under SpecConfig *)

\* the value v has a value at the end of the path segs
RECURSIVE Present(_, _)
Present(v, segs) ==
    \/ segs = <<>>
    \/ /\ IsDict(v)
       /\ segs[1] \in DOMAIN v.dict
       /\ Present(v.dict[segs[1]], Tail(segs))

\* the value at the end of a path that is Present
RECURSIVE ValueAt(_, _)
ValueAt(v, segs) == IF segs = <<>> THEN v ELSE ValueAt(v.dict[segs[1]], Tail(segs))

\* the paths to the values of v that are not non-empty mappings
RECURSIVE LeafPaths(_)
LeafPaths(v) ==
    IF IsDict(v) /\ DOMAIN v.dict # {}
    THEN UNION { {<<k>> \o q : q \in LeafPaths(v.dict[k])} : k \in DOMAIN v.dict }
    ELSE {<<>>}

\* the dotted key of a non-empty path
RECURSIVE Dotted(_)
Dotted(segs) ==
    IF Len(segs) = 1 THEN segs[1] ELSE segs[1] \o <<".">> \o Dotted(Tail(segs))

IsPrefix(a, b) == Len(a) <= Len(b) /\ SubSeq(b, 1, Len(a)) = a

\* every proper prefix of the path segs that has a value in v has a mapping
RECURSIVE MappingsAlong(_, _)
MappingsAlong(v, segs) ==
    /\ IsDict(v)
    /\ \/ Len(segs) <= 1
       \/ segs[1] \notin DOMAIN v.dict
       \/ MappingsAlong(v.dict[segs[1]], Tail(segs))

\* C17: get(key, default) never raises, and returns default whenever a
\* segment of key is absent, also when the walk comes to a value that is not
\* a mapping before the last segment.
C17_GetNeverRaises ==
    cop.op = "get" =>
        /\ cop.exc = "none"
        /\ ~Present(heap[cop.ref], Split(cop.key)) => cop.result = cop.value

\* C18 as stated: after set(key, value), get(key) returns value, and every
\* key neither on the path of key nor below it reads as before the call.
C18_SetCreatesPath ==
    cop.op = "set" =>
        /\ cop.exc = "none"
        /\ ConfigGetResult(heap[cop.ref], cop.key, None) = [exc |-> "none", val |-> cop.value]
        /\ \A k \in Keys :
              (~IsPrefix(Split(k), Split(cop.key)) /\ ~IsPrefix(Split(cop.key), Split(k))) =>
                  ConfigGetResult(heap[cop.ref], k, None)
                      = ConfigGetResult(prev_heap[cop.ref], k, None)

\* C18, amended: when no proper prefix of key holds a value that is not a
\* mapping, set(key, value) creates the missing levels and returns, get(key)
\* returns value afterwards, and every key neither on the path of key nor
\* below it reads as before the call.
C18_SetCreatesPathUnderMappings ==
    (cop.op = "set" /\ MappingsAlong(prev_heap[cop.ref], Split(cop.key))) =>
        /\ cop.exc = "none"
        /\ ConfigGetResult(heap[cop.ref], cop.key, None) = [exc |-> "none", val |-> cop.value]
        /\ \A k \in Keys :
              (~IsPrefix(Split(k), Split(cop.key)) /\ ~IsPrefix(Split(cop.key), Split(k))) =>
                  ConfigGetResult(heap[cop.ref], k, None)
                      = ConfigGetResult(prev_heap[cop.ref], k, None)

\* set() made a level under an existing mapping that holds another key
C18_Witness ==
    /\ cop.op = "set"
    /\ cop.exc = "none"
    /\ cop.key = <<"crawler", ".", "delay", ".", "unit">>
    /\ Present(prev_heap[cop.ref], <<<<"crawler">>, <<"max">>, <<"depth">>>>)
    /\ ~Present(prev_heap[cop.ref], <<<<"crawler">>, <<"delay">>>>)

\* the Config has been constructed and nothing has been set since
Constructed == config_instance # 0 /\ sets = 0

\* what the file layer gave the constructed Config
FileLayer == IF loaded_file \in ConfigFiles THEN SafeLoad(loaded_file) ELSE Dict(EmptyMap)

\* the entries of the environment that are overrides, and the paths they name
Overrides == {i \in DOMAIN os_environ : StartsWith(os_environ[i].name, SPEC_KIT)}

OverridePath(i) == Split(EnvKey(os_environ[i].name))

C20_Singleton ==
    /\ Len(heap) <= 1
    /\ \A i \in DOMAIN refs : refs[i] # 0 => refs[i] = config_instance
    /\ (cop.op = "get_config" /\ prev_heap # <<>>) =>
          (heap = prev_heap /\ cop.exc = "none" /\ cop.ref = config_instance)
    /\ (cop.op = "get" /\ last_set.op = "set" /\ last_set.exc = "none"
        /\ cop.key = last_set.key) =>
          (cop.exc = "none" /\ cop.result = last_set.value)

\* two get_config() calls returned, a value was set, and get read it
C20_Witness ==
    /\ Len(refs) = 2
    /\ \A i \in DOMAIN refs : refs[i] # 0
    /\ last_set.op = "set" /\ last_set.exc = "none"
    /\ cop.op = "get" /\ cop.key = last_set.key

\* the files of the scenario that exist and cannot be loaded: bad.yaml cannot
\* be read or parsed, list.yaml parses to a list, which a dict cannot merge
MalformedFiles == {"bad.yaml", "list.yaml"}

\* C21: constructing a Config from a malformed file raises a RuntimeError and
\* leaves no Config behind: get_config() returns nothing, the instance stays
\* unset, and no Config a caller holds was built from such a file.
C21_MalformedFileFatal ==
    /\ (cop.op = "get_config" /\ prev_heap = <<>> /\ cop.file \in MalformedFiles) =>
          /\ cop.exc = "RuntimeError"
          /\ config_instance = 0
          /\ heap = <<>>
          /\ refs[Len(refs)] = 0
    /\ config_instance # 0 => loaded_file \notin MalformedFiles

\* a construction from the unparsable file raised
C21_Witness ==
    /\ cop.op = "get_config"
    /\ cop.file = "bad.yaml"
    /\ cop.exc = "RuntimeError"
    /\ config_instance = 0

\* a segment with an underscore inside
HasUnderscore(seg) == \E i \in DOMAIN seg : seg[i] = "_"

UnderscoreKeys == {key \in Keys : \E n \in DOMAIN Split(key) : HasUnderscore(Split(key)[n])}

\* C29: no segment of the key an override names has an underscore, so a key
\* with an underscore inside a segment is set by no override, and after
\* construction get() returns for it the file's value or the default.
C29_UnderscoreKeysKeepFileValue ==
    /\ \A i \in Overrides :
          \A n \in DOMAIN OverridePath(i) : ~HasUnderscore(OverridePath(i)[n])
    /\ Constructed =>
          \A key \in UnderscoreKeys :
              LET r == ConfigGetResult(heap[config_instance], key, Str("default")) IN
              /\ r.exc = "none"
              /\ \/ r.val = Str("default")
                 \/ /\ Present(FileLayer, Split(key))
                    /\ r.val = ValueAt(FileLayer, Split(key))

\* C30: set(key, value) raises when a proper prefix of key holds a value
\* that is not a mapping, and the configuration is then what it was before
\* the call.
C30_RaisingSetChangesNothing ==
    (cop.op = "set" /\ ~MappingsAlong(prev_heap[cop.ref], Split(cop.key))) =>
        /\ cop.exc = "TypeError"
        /\ heap = prev_heap

\* set() raised under a number that the file put at a prefix of the key
C30_Witness ==
    /\ cop.op = "set"
    /\ cop.exc = "TypeError"
    /\ cop.key = <<"crawler", ".", "delay", ".", "unit">>
    /\ Present(prev_heap[cop.ref], <<<<"crawler">>, <<"delay">>>>)
    /\ ValueAt(prev_heap[cop.ref], <<<<"crawler">>, <<"delay">>>>) = Num(1)
    /\ heap = prev_heap

=============================================================================
